---- MODULE Spec2Model ----
(***************************************************************************)
(* Onboarding of a freshly authenticated user into an organization         *)
(* ("admin"): the profile questions page, the join-organizations page, the *)
(* organization setup dialog (apps/web/src/components/onboarding) and the  *)
(* backend endpoints and tables the onboarding document lays down for them *)
(* (the document appended to scripts/vps-setup.sh).                        *)
(*                                                                         *)
(* Text is modelled as a sequence of one-character strings, so that        *)
(* lowercasing, slug generation and domain comparison are computed         *)
(* character by character as the source computes them.                     *)
(***************************************************************************)
EXTENDS Naturals, Integers, Sequences, FiniteSets, Bags, TLC

----------------------------------------------------------------------------
(* Bounds of the model.                                                    *)

\* generateRandomOrgName draws its adjective and its noun among the first
\* MaxNameIdx entries of ADJECTIVES and NOUNS.
MaxNameIdx == 2
\* Number of join requests (POST /api/organizations/{slug}/join) issued.
MaxJoinReqs == 2
\* Number of profile writes (POST /api/user/onboarding) accepted.
MaxProfileWrites == 3
\* Number of teams created outside the onboarding pages.
MaxTeams == 1
\* Length of the names given to nameToSlug on their own.
MaxNameLen == 4
\* Longest email given to extractDomain.
MaxEmailLen == 5
\* Most files written by the logo uploads of one dialog.
MaxUploads == 2
\* Most createTeam calls one tab issues.
MaxCreateCalls == 2
\* updateTeam.mutateAsync calls issued by the setup dialogs of one tab
MaxUpdateCalls == 2

----------------------------------------------------------------------------
(* Characters and String.prototype.toLowerCase.                            *)

UpperLetters ==
  << "A","B","C","D","E","F","G","H","I","J","K","L","M",
     "N","O","P","Q","R","S","T","U","V","W","X","Y","Z" >>

LowerLetters ==
  << "a","b","c","d","e","f","g","h","i","j","k","l","m",
     "n","o","p","q","r","s","t","u","v","w","x","y","z" >>

Digits == {"0","1","2","3","4","5","6","7","8","9"}

Range(s) == { s[i] : i \in DOMAIN s }

\* The fields of a text split at a delimiter character (split(d), cut -d).
RECURSIVE SplitAt(_, _)
SplitAt(s, d) ==
  LET ds == { i \in DOMAIN s : s[i] = d }
  IN  IF ds = {} THEN <<s>>
      ELSE LET i == CHOOSE k \in ds : \A m \in ds : k <= m
           IN  <<SubSeq(s, 1, i - 1)>> \o SplitAt(SubSeq(s, i + 1, Len(s)), d)

\* One character of toLowerCase(): an ASCII capital becomes its small letter,
\* every other character of the model's alphabet is unchanged.
ToLowerChar(c) ==
  IF \E i \in DOMAIN UpperLetters : UpperLetters[i] = c
    THEN LowerLetters[CHOOSE i \in DOMAIN UpperLetters : UpperLetters[i] = c]
    ELSE c

toLowerCase(s) == [ i \in DOMAIN s |-> ToLowerChar(s[i]) ]

\* The character class [a-z0-9] of nameToSlug's first regular expression.
IsSlugChar(c) == c \in Range(LowerLetters) \cup Digits

----------------------------------------------------------------------------
(* Random organization names and slugs (join-organizations.tsx).           *)

ADJECTIVES ==
  << <<"M","a","g","i","c">>,
     <<"C","o","s","m","i","c">>,
     <<"H","a","p","p","y">>,
     <<"S","w","i","f","t">>,
     <<"B","r","i","g","h","t">>,
     <<"G","o","l","d","e","n">>,
     <<"S","i","l","v","e","r">>,
     <<"C","r","y","s","t","a","l">>,
     <<"M","y","s","t","i","c">>,
     <<"N","o","b","l","e">>,
     <<"R","a","p","i","d">>,
     <<"S","t","e","l","l","a","r">>,
     <<"L","u","c","k","y">>,
     <<"M","i","g","h","t","y">>,
     <<"C","l","e","v","e","r">>,
     <<"B","o","l","d">>,
     <<"W","i","l","d">>,
     <<"C","o","o","l">>,
     <<"E","p","i","c">>,
     <<"S","u","p","e","r">>,
     <<"M","e","g","a">>,
     <<"U","l","t","r","a">>,
     <<"T","u","r","b","o">>,
     <<"H","y","p","e","r">> >>

NOUNS ==
  << <<"U","n","i","c","o","r","n">>,
     <<"D","r","a","g","o","n">>,
     <<"P","h","o","e","n","i","x">>,
     <<"T","i","g","e","r">>,
     <<"E","a","g","l","e">>,
     <<"W","o","l","f">>,
     <<"F","a","l","c","o","n">>,
     <<"L","i","o","n">>,
     <<"P","a","n","t","h","e","r">>,
     <<"R","a","v","e","n">>,
     <<"H","a","w","k">>,
     <<"B","e","a","r">>,
     <<"F","o","x">>,
     <<"O","w","l">>,
     <<"S","h","a","r","k">>,
     <<"D","o","l","p","h","i","n">>,
     <<"P","e","n","g","u","i","n">>,
     <<"K","o","a","l","a">>,
     <<"P","a","n","d","a">>,
     <<"O","t","t","e","r">>,
     <<"R","a","b","b","i","t">>,
     <<"S","q","u","i","r","r","e","l">>,
     <<"R","a","c","c","o","o","n">>,
     <<"B","e","a","v","e","r">> >>

\* `${adjective} ${noun}` for the indices Math.random() produced.
generateRandomOrgName(i, j) == ADJECTIVES[i] \o <<" ">> \o NOUNS[j]

\* Variant: every character outside [a-z0-9] becomes a "-" of its own.
ReplaceEach(s, i) ==
  [ k \in 1..(Len(s) - i + 1) |->
      IF IsSlugChar(s[k + i - 1]) THEN s[k + i - 1] ELSE "-" ]

\* .replace(/[^a-z0-9]+/g, "-"): every maximal run of characters outside
\* [a-z0-9] becomes one "-".
RECURSIVE ReplaceRuns(_, _)
ReplaceRuns(s, i) ==
  IF i > Len(s) THEN <<>>
  ELSE IF IsSlugChar(s[i]) THEN <<s[i]>> \o ReplaceRuns(s, i + 1)
  ELSE IF i > 1 /\ ~IsSlugChar(s[i - 1]) THEN ReplaceRuns(s, i + 1)
  ELSE <<"-">> \o ReplaceRuns(s, i + 1)

\* Variant: only the "-" at the start is removed.
TrimLeadingHyphen(s) == IF Len(s) > 0 /\ s[1] = "-" THEN Tail(s) ELSE s

\* .replace(/^-|-$/g, ""): one "-" at the start and one "-" at the end are
\* removed (a lone "-" is consumed by the first alternative).
TrimEdgeHyphens(s) ==
  LET a == IF Len(s) > 0 /\ s[1] = "-" THEN Tail(s) ELSE s
  IN  IF Len(a) > 0 /\ a[Len(a)] = "-" THEN SubSeq(a, 1, Len(a) - 1) ELSE a

nameToSlug(name) == TrimEdgeHyphens(ReplaceRuns(toLowerCase(name), 1))

\* The copy of nameToSlug in onboarding.tsx: the same three calls.
nameToSlugDialog(name) ==
  TrimEdgeHyphens(ReplaceRuns(toLowerCase(name), 1))

\* Characters of the names given to nameToSlug on their own: a capital, a
\* small letter, a digit, the hyphen, the space and a punctuation mark.
NameAlphabet == {"A", "b", "7", "-", " ", "!"}

RECURSIVE TextsUpTo(_)
TextsUpTo(n) ==
  IF n = 0 THEN { <<>> }
  ELSE LET shorter == TextsUpTo(n - 1)
       IN  shorter \cup { Append(x, c) : x \in shorter, c \in NameAlphabet }

NameInputs == TextsUpTo(MaxNameLen)

----------------------------------------------------------------------------
(* Users, their emails and the email domain.                               *)

Users == {"u1", "u2"}

Email(u) == IF u = "u1" THEN <<"a","@","a","c","m","e",".","c","o","m">>   \* a@acme.com
            ELSE <<"b","@","m","e",".","c","o","m">>               \* b@me.com

\* Positions of "@" in a text.
AtPositions(s) == { i \in DOMAIN s : s[i] = "@" }

\* extractDomain: email.split("@") has exactly two parts when the email has
\* exactly one "@"; the second part is returned, otherwise "".
extractDomain(email) ==
  IF Cardinality(AtPositions(email)) = 1
    THEN LET at == CHOOSE i \in AtPositions(email) : TRUE
         IN  SubSeq(email, at + 1, Len(email))
    ELSE <<>>

\* The domain as the joinable-organizations endpoint compares it:
\* user@company.com -> @company.com.
UserDomain(u) ==
  LET d == extractDomain(Email(u))
  IN  IF d = <<>> THEN <<>> ELSE <<"@">> \o d

\* Emails given to extractDomain: texts over a small alphabet with an upper
\* case letter, the "@" and the dot.
EmailAlphabet == {"a", "B", "@", "."}

RECURSIVE EmailsUpTo(_)
EmailsUpTo(n) ==
  IF n = 0 THEN { <<>> }
  ELSE LET shorter == EmailsUpTo(n - 1)
       IN  shorter \cup { Append(x, c) : x \in shorter, c \in EmailAlphabet }

EmailInputs == EmailsUpTo(MaxEmailLen)

\* One character of toUpperCase().
ToUpperChar(c) ==
  IF \E i \in DOMAIN LowerLetters : LowerLetters[i] = c
    THEN UpperLetters[CHOOSE i \in DOMAIN LowerLetters : LowerLetters[i] = c]
    ELSE c

\* domainToCompanyName: "" for the empty domain, else the part before the
\* first "." with its first character in upper case.
domainToCompanyName(domain) ==
  IF domain = <<>> THEN <<>>
  ELSE LET dots == { i \in DOMAIN domain : domain[i] = "." }
           name == IF dots = {} THEN domain
                   ELSE SubSeq(domain, 1,
                               (CHOOSE i \in dots : \A k \in dots : i <= k) - 1)
       IN  IF name = <<>> THEN <<>>
           ELSE <<ToUpperChar(name[1])>> \o SubSeq(name, 2, Len(name))

\* getLogoUrl: "" for the empty domain, else the favicon address of the
\* domain.
getLogoUrl(domain) ==
  IF domain = <<>> THEN <<>>
  ELSE <<"https://www.google.com/s2/favicons?domain=">> \o domain
         \o <<"&sz=256">>

\* Names of the image files chosen for the logo.
FileNames == { <<"a",".","j","p","g">>,            \* a.jpg
               <<"l","o","g","o">>,                \* logo
               <<"a",".","b",".","S","V","G">>,    \* a.b.SVG
               <<"a",".">> }                       \* a.

\* file.name.split(".").pop() || "png"
FileExtension(name) ==
  LET parts == SplitAt(name, ".")
      last == parts[Len(parts)]
  IN  IF last = <<>> THEN <<"p","n","g">> ELSE last

\* The path of the n-th uploaded file (n stands for the random UUID of the
\* file name) with the extension of the file chosen.
UploadPath(n, extension) == <<"uploads/", "org-logo-", n, ".">> \o extension

\* The address of an uploaded file.
UploadUrl(path) == <<"https://", "API_LEGACY", "/files/", "locator", "/">> \o path

\* Values typed into the Company URL field.
CompanyUrlInputs == { <<>>,
                      <<"a","c","m","e",".","c","o","m">>,
                      <<"d","e","c","o",".","c","x">>,
                      <<".","i","o">> }

----------------------------------------------------------------------------
(* vps-setup.sh: texts of the shell.                                       *)

\* cut -d<d> -f<n>: the n-th field of the line; a line without the delimiter
\* is printed whole, no input gives no output.
cut(s, d, n) ==
  IF s = <<>> THEN <<>>
  ELSE LET fields == SplitAt(s, d)
       IN  IF Len(fields) = 1 THEN s
           ELSE IF n <= Len(fields) THEN fields[n] ELSE <<>>

\* The value [[ ... -eq ... ]] gives to a text of digits; the empty text is 0.
RECURSIVE ArithValue(_)
ArithValue(s) ==
  IF s = <<>> THEN 0
  ELSE LET digit == CHOOSE n \in 0..9 :
                      <<"0","1","2","3","4","5","6","7","8","9">>[n + 1] = s[Len(s)]
       IN  10 * ArithValue(SubSeq(s, 1, Len(s) - 1)) + digit

\* What node --version prints: nothing when node is absent.
NodeVersions == { <<>>,
                  <<"v","2","0",".","1","1",".","0">>,
                  <<"v","2","4",".","1",".","0">> }

\* What node --version prints after NodeSource's setup_24.x installed nodejs.
InstalledNodeVersion == <<"v","2","4",".","1",".","0">>

REQUIRED_NODE_VERSION == 24

\* Megabytes of RAM that free -m reports, around the minimum.
MinRamMb == 4096

RamInputs == {2048, 4096, 8192}

PackageManagers == {"apt-get", "yum", "dnf", "none"}

\* Exit statuses of a command of the script: 0, or the status it fails with
\* (1: a general error or return 1; 2: sh get-docker.sh; 6: curl could not
\* resolve the host; 100: apt-get).
CommandStatuses == {"0", "1", "2", "6", "100"}

\* The steps of main in the order of its if-branch.
MainSteps == << "check_resources", "setup_nodejs", "setup_jsr_registry",
               "setup_docker", "configure_coolify", "setup_firewall",
               "create_health_check", "validate_configuration" >>

\* Values an administrator stores in allowed_email_domains.
DomainPool == { <<"@","a","c","m","e",".","c","o","m">>,    \* @acme.com
                <<"@","A","c","m","e",".","c","o","m">> }   \* @Acme.com

----------------------------------------------------------------------------
(* The profile questions (onboarding.tsx).                                 *)

ROLES == {"engineering", "product", "marketing", "design", "operations",
          "sales", "founder", "other"}

COMPANY_SIZES == {"1", "2-25", "26-100", "101-500", "501-1000", "1001+"}

USE_CASES == {"internal-apps", "manage-mcps", "ai-saas"}

\* Options chosen in the Select fields of the questions form.
AnswerInputs(field) ==
  CASE field = "role" -> {"engineering", "product"}
    [] field = "companySize" -> {"2-25"}
    [] field = "useCase" -> {"internal-apps"}

\* One choice of the three answers.
Answers == [role |-> "engineering", companySize |-> "2-25",
            useCase |-> "internal-apps"]

\* Values sent to the save-profile endpoint for the three answers.
RoleInputs == {"", "engineering", "product", "invalid"}
SizeInputs == {"2-25", "9999"}
UseCaseInputs == {"internal-apps", "games"}

\* z.string().min(1) on each of the three fields.
schema(role, companySize, useCase) ==
  /\ role # ""
  /\ companySize # ""
  /\ useCase # ""

----------------------------------------------------------------------------
(* The join-organizations page (join-organizations.tsx).                   *)

MOCK_JOINABLE_ORGS ==
  << [id |-> 1, slug |-> <<"m","y","-","t","e","a","m">>],    \* my-team
     [id |-> 2, slug |-> <<"m","y","-","o","w","n">>] >>  \* my-own

\* The list JoinOrganizationsContent renders: const joinableOrgs =
\* MOCK_JOINABLE_ORGS.
joinableOrgs == MOCK_JOINABLE_ORGS

\* Browser tabs showing the onboarding pages, and the user signed in.
Tabs == {"t1", "t2", "t3"}

TabUser(t) == IF t = "t3" THEN "u2" ELSE "u1"

\* One tab of each user.
SetupTabs == {"t1", "t3"}

\* Names typed into the setup dialog's "Organization name" field.
SetupNameInputs == { generateRandomOrgName(1, 1),
                     <<"A","c","m","e"," ","I","n","c">> }   \* Acme Inc

\* A name typed into the Organization name field that holds no letter and
\* no digit.
SymbolNameInputs == { <<"!", "!">> }

----------------------------------------------------------------------------
(* State.                                                                  *)

VARIABLES
  teams,         \* the teams table: sequence of rows, id = index
  members,       \* the members table: sequence of rows
  user_profile,  \* the user_profile table: sequence of rows
  now,           \* the clock NOW() reads; one tick per accepted profile write
  tabs,          \* per tab: the route shown and the component's state
  createCall,    \* per tab: the createTeam.mutateAsync calls of handleCreateNew,
                 \* in the order they were issued
  joinReqs,      \* the join requests received, with their progress and answer
                 \* (admittedAtInsert records whether the allowed domains still
                 \* admitted the user when the member row was inserted)
  profileReq,    \* the last save-profile request and its answer
  slugCall,      \* a name and the slugs the two copies of nameToSlug return
  submitCall,    \* per tab: the last onSubmit call that saves the profile and tracks it,
                 \* with the body it sent
  domainCall,    \* an email and the domain extractDomain returns for it
  dialog,        \* per tab: SetupOrgDialog's form values, logo state, the last
                 \* upload attempt and the updateTeam calls of its Save button
  script,        \* vps-setup.sh: the machine, the step reached and the steps run
  profileCalls   \* the save-profile requests validated and not written yet (a bag)

vars == << teams, members, user_profile, now, tabs,
           createCall, joinReqs, profileReq, slugCall,
           submitCall,
           domainCall,
           dialog,
           script,
           profileCalls >>

\* A createTeam.mutateAsync({name, slug}) call just issued.
NewCall(name, slug) ==
  [status |-> "pending", name |-> name, slug |-> slug, attempts |-> 1,
   error |-> "", team |-> 0]

NoProfileReq == [user |-> "", role |-> "", company_size |-> "",
                 use_case |-> "", result |-> "none"]

\* The route a tab shows: /onboarding, /onboarding/join or /{slug}[?setup=true],
\* with the state of the component mounted there; on /onboarding, the
\* answers of the questions form (defaults ""), the fields that show a
\* message and whether a submit of the form has ended.
Route(page, slug, setup) ==
  [page |-> page, slug |-> slug, setup |-> setup, isJoining |-> FALSE,
   errors |-> FALSE,
   role |-> "", companySize |-> "", useCase |-> "",
   formErrors |-> {}, isSubmitted |-> FALSE]

\* No onSubmit call that saves the profile yet.
NoSubmit == [role |-> "", company_size |-> "", use_case |-> "",
             saved |-> FALSE, tracked |-> FALSE, outcome |-> "none"]

\* No name given to nameToSlug yet.
NoSlugCall == [name |-> <<>>, pc |-> "idle", first |-> <<>>, second |-> <<>>,
               dialog |-> <<>>, nested |-> <<>>]

\* No email given to extractDomain yet.
NoDomainCall == [email |-> <<>>, pc |-> "idle", domain |-> <<>>]

\* An updateTeam.mutateAsync({id: orgId, data: {name}}) call just issued by
\* the dialog instance mounted as the instance-th one of its tab.
NewUpdate(orgId, name, instance) ==
  [status |-> "pending", orgId |-> orgId, name |-> name,
   instance |-> instance]

\* SetupOrgDialog not mounted. instance counts the dialogs mounted in the
\* tab; updates holds the updateTeam calls of all of them, in the order
\* they were issued.
ClosedDialog ==
  [mounted |-> FALSE, companyUrl |-> <<>>, name |-> <<>>, logoUrl |-> <<>>,
   uploadedLogoPath |-> <<>>, isUploading |-> FALSE, uploads |-> 0,
   attempt |-> "none", path |-> <<>>, formErrors |-> {},
   isSubmitted |-> FALSE, instance |-> 0, updates |-> <<>>]

\* The fields the schema of the form turns down: a company URL and a name
\* are required.
FieldErrors(companyUrl, name) ==
  { f \in {"companyUrl", "name"} :
      (IF f = "companyUrl" THEN companyUrl ELSE name) = <<>> }

\* The messages of the form after a field was typed into: once a Save has
\* ended the field is validated again on every change (the form's default
\* reValidateMode), and the message of the other field stays as it is.
Revalidated(d, field, value) ==
  IF ~d.isSubmitted THEN d.formErrors
  ELSE IF value = <<>> THEN d.formErrors \cup {field}
  ELSE d.formErrors \ {field}

\* Variant: the effect fetches the favicon whether or not a logo was
\* uploaded.
companyUrlEffectUnguarded(d) ==
  IF d.companyUrl = <<>> THEN d
  ELSE [d EXCEPT
          !.logoUrl = getLogoUrl(d.companyUrl),
          !.name = IF domainToCompanyName(d.companyUrl) # <<>>
                     THEN domainToCompanyName(d.companyUrl) ELSE @]

\* The useEffect on [companyUrl, uploadedLogoPath]: with a company URL, the
\* logo becomes the favicon unless a logo was uploaded, and the name becomes
\* the suggested name when there is one.
companyUrlEffect(d) ==
  IF d.companyUrl = <<>> THEN d
  ELSE [d EXCEPT
          !.logoUrl = IF d.uploadedLogoPath = <<>>
                        THEN getLogoUrl(d.companyUrl) ELSE @,
          !.name = IF domainToCompanyName(d.companyUrl) # <<>>
                     THEN domainToCompanyName(d.companyUrl) ELSE @]

\* The dialog as mounted for a user on the page of an organization: the form
\* defaults come from the user's email domain, and the effect has run once.
MountedDialog(u, currentOrgName) ==
  LET userDomain == extractDomain(Email(u))
      suggestedCompanyName == domainToCompanyName(userDomain)
  IN  companyUrlEffect(
        [ClosedDialog EXCEPT
           !.mounted = TRUE,
           !.companyUrl = userDomain,
           !.name = IF suggestedCompanyName # <<>>
                      THEN suggestedCompanyName ELSE currentOrgName])

\* vps-setup.sh not started.
NoScript ==
  [pc |-> "idle", ram |-> 0, node |-> <<>>, pkg |-> "none", ran |-> <<>>,
   install |-> "none", nodejs |-> "none", exit |-> "none"]

\* Empty tables, every tab on /onboarding.
InitApp ==
  /\ teams = <<>>
  /\ members = <<>>
  /\ user_profile = <<>>
  /\ now = 0
  /\ tabs = [t \in Tabs |-> Route("onboarding", <<>>, FALSE)]
  /\ createCall = [t \in Tabs |-> <<>>]
  /\ joinReqs = <<>>
  /\ profileReq = NoProfileReq
  /\ profileCalls = EmptyBag
  /\ submitCall = [t \in Tabs |-> NoSubmit]
  /\ dialog = [t \in Tabs |-> ClosedDialog]
  /\ script = NoScript

Init ==
  /\ InitApp
  /\ slugCall = NoSlugCall
  /\ domainCall = NoDomainCall

----------------------------------------------------------------------------
(* Tables.                                                                 *)

\* onboarding_completed_at of a profile that is not complete (SQL NULL);
\* the clock starts at 1.
NULL == 0

TeamIds == DOMAIN teams

SlugTaken(slug) == \E i \in TeamIds : teams[i].slug = slug

TeamBySlug(slug) == CHOOSE i \in TeamIds : teams[i].slug = slug

\* Rows of the members table for a user in a team.
MemberRows(u, o) ==
  { i \in DOMAIN members : members[i].user_id = u /\ members[i].team_id = o }

IsMember(u, o) == MemberRows(u, o) # {}

\* Rows of user_profile for a user.
ProfileRows(u) == { i \in DOMAIN user_profile : user_profile[i].user_id = u }

\* WHERE '@company.com' = ANY(t.allowed_email_domains)
FindJoinable(domain, ts) ==
  { i \in DOMAIN ts : domain \in ts[i].allowed_email_domains }

\* POST /api/organizations/{org_slug}/join, task 1.
DomainAllowed(u, o) == o \in FindJoinable(UserDomain(u), teams)

----------------------------------------------------------------------------
(* OnboardingQuestions: the Continue button.                               *)

\* The three Select fields of the questions form and their option lists.
QuestionFields == {"role", "companySize", "useCase"}

SelectOptions(field) ==
  CASE field = "role" -> ROLES
    [] field = "companySize" -> COMPANY_SIZES
    [] field = "useCase" -> USE_CASES

\* zodResolver(schema) on the values of the form: the fields that get a
\* message, each answer being required.
QuestionErrors(q) == { f \in QuestionFields : q[f] = "" }

\* <Select onValueChange={field.onChange}>: an option of a field is chosen;
\* once a submit of the form has ended, the field is validated again on the
\* change and the messages of the other fields stay.
selectAnswer(t, field, value) ==
  /\ tabs[t].page = "onboarding"
  /\ field \in QuestionFields
  /\ value \in SelectOptions(field)
  /\ value # tabs[t][field]
  /\ tabs' = [tabs EXCEPT
                ![t][field] = value,
                ![t].formErrors =
                  IF ~tabs[t].isSubmitted THEN @
                  ELSE IF value = "" THEN @ \cup {field}
                  ELSE @ \ {field}]
  /\ UNCHANGED << profileCalls, script, dialog, domainCall, submitCall, slugCall, teams,
                  members, user_profile, now, createCall, joinReqs, profileReq >>

\* form.handleSubmit(onSubmit) with answers the schema rejects: the field
\* messages are shown and onSubmit does not run. The Continue button is
\* disabled while a call of onSubmit is pending (isSubmitting).
QuestionsRejected(t) ==
  /\ tabs[t].page = "onboarding"
  /\ submitCall[t].outcome # "pending"
  /\ ~schema(tabs[t].role, tabs[t].companySize, tabs[t].useCase)
  /\ tabs' = [tabs EXCEPT ![t].formErrors = QuestionErrors(tabs[t]),
                          ![t].isSubmitted = TRUE]
  /\ UNCHANGED << profileCalls, script, dialog, domainCall, submitCall, slugCall, teams, members, user_profile, now,
                  createCall, joinReqs, profileReq >>

\* form.handleSubmit(onSubmit) with answers the schema accepts. onSubmit:
\* isSubmitting goes true and back to false without an await in between; the
\* answers are logged and the tab goes to /onboarding/join.
QuestionsSubmit(t) ==
  /\ tabs[t].page = "onboarding"
  /\ schema(tabs[t].role, tabs[t].companySize, tabs[t].useCase)
  /\ tabs' = [tabs EXCEPT ![t] = Route("join", <<>>, FALSE)]
  /\ UNCHANGED << profileCalls, script, dialog, domainCall, submitCall, slugCall, teams, members, user_profile, now,
                  createCall, joinReqs, profileReq >>

----------------------------------------------------------------------------
(* JoinOrganizationsContent: the Join buttons and "Create new admin".      *)

\* handleJoinOrg: setIsJoining(true), log, navigate(`/${orgSlug}`),
\* setIsJoining(false); no await, so the handler is one step.
handleJoinOrg(t, m) ==
  /\ tabs[t].page = "join"
  /\ tabs' = [tabs EXCEPT ![t] = Route("org", MOCK_JOINABLE_ORGS[m].slug, FALSE)]
  /\ UNCHANGED << profileCalls, script, dialog, domainCall, submitCall, slugCall, teams, members, user_profile, now,
                  createCall, joinReqs, profileReq >>

\* handleJoinOrg while the target route is not rendered yet (the router is
\* not part of the sources; a route that loads lazily leaves the join page
\* on screen): finally has set isJoining to false and the page is still
\* /onboarding/join, with the navigation to /{orgSlug} under way. The Join
\* buttons are never disabled, so a further click navigates again.
handleJoinOrgRoutePending(t, m) ==
  /\ tabs[t].page = "join"
  /\ tabs' = [tabs EXCEPT ![t].isJoining = FALSE,
                          ![t].slug = MOCK_JOINABLE_ORGS[m].slug]
  /\ UNCHANGED << profileCalls, script, dialog, domainCall, submitCall, slugCall, teams,
                  members, user_profile, now, createCall, joinReqs, profileReq >>

\* The route a Join click navigated to is rendered.
routeRendered(t) ==
  /\ tabs[t].page = "join"
  /\ tabs[t].slug # <<>>
  /\ tabs' = [tabs EXCEPT ![t] = Route("org", tabs[t].slug, FALSE)]
  /\ UNCHANGED << profileCalls, script, dialog, domainCall, submitCall, slugCall, teams,
                  members, user_profile, now, createCall, joinReqs, profileReq >>

\* handleCreateNew up to its await: the button is enabled only while
\* isJoining is false; a name is drawn, its slug computed and
\* createTeam.mutateAsync({name, slug}) is called once. Calls issued earlier
\* and not settled yet stay in flight.
handleCreateNew(t, i, j) ==
  /\ tabs[t].page = "join"
  /\ ~tabs[t].isJoining
  /\ Len(createCall[t]) < MaxCreateCalls
  /\ LET randomName == generateRandomOrgName(i, j)
     IN  createCall' = [createCall EXCEPT ![t] =
           Append(@, NewCall(randomName, nameToSlug(randomName)))]
  /\ tabs' = [tabs EXCEPT ![t].isJoining = TRUE]
  /\ UNCHANGED << profileCalls, script, dialog, domainCall, submitCall, slugCall, teams,
                  members, user_profile, now, joinReqs, profileReq >>

\* Variant: the slug is compared with the slug of the row inserted last
\* only.
InsertOrganizationConflictsWithLast(slug) ==
  teams # <<>> /\ teams[Len(teams)].slug = slug

\* The repository's answer to one insert of an organization: a conflict when
\* the slug is taken.
InsertOrganizationConflicts(slug) == SlugTaken(slug)

\* The team row and the creator's administrative membership that createTeam
\* inserts.
NewTeamRow(name, slug) ==
  [id |-> Len(teams) + 1, name |-> name, slug |-> slug,
   allowed_email_domains |-> {}]

CreatorMembership(u, o) == [user_id |-> u, team_id |-> o, admin |-> TRUE]

\* createTeam committed for a creator: the team row and the creator's
\* membership are inserted together.
InsertOrganization(u, name, slug) ==
  /\ ~InsertOrganizationConflicts(slug)
  /\ teams' = Append(teams, NewTeamRow(name, slug))
  /\ members' = Append(members, CreatorMembership(u, Len(teams) + 1))

\* The repository serves the k-th createTeam call of a tab: the team row and
\* the creator's membership are inserted; the caller still awaits.
createTeamCommitted(t, k) ==
  /\ k \in DOMAIN createCall[t]
  /\ createCall[t][k].status = "pending"
  /\ InsertOrganization(TabUser(t), createCall[t][k].name, createCall[t][k].slug)
  /\ createCall' = [createCall EXCEPT ![t][k].status = "committed",
                                      ![t][k].team = Len(teams) + 1]
  /\ UNCHANGED << profileCalls, script, dialog, domainCall, submitCall, slugCall,
                  user_profile, now, tabs, joinReqs, profileReq >>

\* handleCreateNew after its await, the k-th call resolved: the tab goes to
\* /{team.slug}?setup=true, where the setup dialog is shown for the new
\* team, and, in finally, isJoining is false again. A dialog the tab already
\* shows for another team is mounted anew, with a form and an updateTeam
\* mutation of its own, or keeps its state (the router and the parent of
\* the dialog are not part of the sources); an updateTeam call in flight
\* goes on either way.
createTeamResolved(t, k, remount) ==
  /\ k \in DOMAIN createCall[t]
  /\ createCall[t][k].status = "committed"
  /\ remount \/ dialog[t].mounted
  /\ createCall' = [createCall EXCEPT ![t][k].status = "created"]
  /\ tabs' = [tabs EXCEPT ![t] = Route("org", createCall[t][k].slug, TRUE)]
  /\ dialog' = [dialog EXCEPT ![t] =
                  IF remount
                    THEN [MountedDialog(TabUser(t), createCall[t][k].name)
                            EXCEPT !.instance = dialog[t].instance + 1,
                                   !.updates = dialog[t].updates]
                    ELSE @]
  /\ UNCHANGED << profileCalls, script, domainCall, submitCall, slugCall, teams, members,
                  user_profile, now, joinReqs, profileReq >>

\* The k-th createTeam.mutateAsync of a tab rejected for its slug (the
\* refusal writes nothing, so it is one step with the code after the await):
\* the catch block alerts the message, no further call is made, and finally
\* sets isJoining to false.
createTeamRejected(t, k) ==
  /\ k \in DOMAIN createCall[t]
  /\ createCall[t][k].status = "pending"
  /\ InsertOrganizationConflicts(createCall[t][k].slug)
  /\ createCall' = [createCall EXCEPT ![t][k].status = "failed",
                                      ![t][k].error = "SlugConflict"]
  /\ tabs' = [tabs EXCEPT ![t].isJoining = FALSE]
  /\ UNCHANGED << profileCalls, script, dialog, domainCall, submitCall, slugCall, teams,
                  members, user_profile, now, joinReqs, profileReq >>

\* The k-th createTeam.mutateAsync of a tab rejected because the repository
\* could not be reached: the same catch block alerts the message, no further
\* call is made, and finally sets isJoining to false.
createTeamUnavailable(t, k) ==
  /\ k \in DOMAIN createCall[t]
  /\ createCall[t][k].status = "pending"
  /\ createCall' = [createCall EXCEPT ![t][k].status = "failed",
                                      ![t][k].error = "RepositoryUnavailable"]
  /\ tabs' = [tabs EXCEPT ![t].isJoining = FALSE]
  /\ UNCHANGED << profileCalls, script, dialog, domainCall, submitCall, slugCall, teams,
                  members, user_profile, now, joinReqs, profileReq >>

----------------------------------------------------------------------------
(* SetupOrgDialog: the Save button.                                        *)

\* The data onSubmit passes to updateTeam.mutateAsync({id: orgId, data}).
UpdateTeamData(name) == [name |-> name]

\* The repository's answer to one update of an organization: a conflict when
\* the data carries a slug that another organization has (slugs are
\* globally unique).
UpdateOrganizationConflicts(orgId, data) ==
  /\ "slug" \in DOMAIN data
  /\ \E o \in TeamIds : o # orgId /\ teams[o].slug = data.slug

\* updateTeam applied to a row: the fields present in data are replaced.
ApplyTeamUpdate(row, data) ==
  [f \in DOMAIN row |-> IF f \in DOMAIN data THEN data[f] ELSE row[f]]

\* The dialog of a tab is open: the tab shows /{slug}?setup=true.
DialogOpen(t) ==
  /\ tabs[t].page = "org"
  /\ tabs[t].setup
  /\ dialog[t].mounted

\* updateTeam.isPending of the dialog a tab shows: a call of this dialog is
\* not settled yet.
UpdatePending(t) ==
  \E i \in DOMAIN dialog[t].updates :
    /\ dialog[t].updates[i].instance = dialog[t].instance
    /\ dialog[t].updates[i].status \in {"pending", "committed"}

\* The schema of the form: a company URL and a name, both non-empty.
setupSchema(companyUrl, name) == Len(companyUrl) >= 1 /\ Len(name) >= 1

\* The Organization name field is edited; after a Save that has ended the
\* field is validated at once.
setName(t, name) ==
  /\ DialogOpen(t)
  /\ name # dialog[t].name
  /\ dialog' = [dialog EXCEPT
                  ![t].name = name,
                  ![t].formErrors = Revalidated(dialog[t], "name", name)]
  /\ UNCHANGED << profileCalls, script, domainCall, submitCall, slugCall, teams, members,
                  user_profile, now, tabs, createCall, joinReqs, profileReq >>

\* form.handleSubmit(onSubmit) with values the schema rejects: the field
\* messages are shown, onSubmit does not run and updateTeam is not called.
SetupSubmitRejected(t) ==
  /\ DialogOpen(t)
  /\ ~UpdatePending(t)
  /\ ~setupSchema(dialog[t].companyUrl, dialog[t].name)
  /\ dialog' = [dialog EXCEPT
                  ![t].formErrors = FieldErrors(dialog[t].companyUrl,
                                                dialog[t].name),
                  ![t].isSubmitted = TRUE]
  /\ UNCHANGED << profileCalls, script, domainCall, submitCall, slugCall, teams, members,
                  user_profile, now, tabs, createCall, joinReqs, profileReq >>

\* onSubmit up to its await: updateTeam.mutateAsync({id: orgId, data}) is
\* called with the name of the form; the Save button is disabled while a
\* call of this dialog is pending. The dialog stays open.
SetupSubmit(t) ==
  /\ DialogOpen(t)
  /\ SlugTaken(tabs[t].slug)
  /\ ~UpdatePending(t)
  /\ Len(dialog[t].updates) < MaxUpdateCalls
  /\ setupSchema(dialog[t].companyUrl, dialog[t].name)
  /\ dialog' = [dialog EXCEPT
                  ![t].formErrors = {},
                  ![t].updates = Append(@, NewUpdate(TeamBySlug(tabs[t].slug),
                                                     dialog[t].name,
                                                     dialog[t].instance))]
  /\ UNCHANGED << profileCalls, script, domainCall, submitCall, slugCall, teams, members,
                  user_profile, now, tabs, createCall, joinReqs, profileReq >>

\* The repository serves the i-th updateTeam call of a tab: the update is
\* applied to the team row.
updateTeamCommitted(t, i) ==
  /\ i \in DOMAIN dialog[t].updates
  /\ dialog[t].updates[i].status = "pending"
  /\ LET call == dialog[t].updates[i]
     IN  /\ ~UpdateOrganizationConflicts(call.orgId, UpdateTeamData(call.name))
         /\ teams' = [teams EXCEPT
                        ![call.orgId] =
                          ApplyTeamUpdate(@, UpdateTeamData(call.name))]
  /\ dialog' = [dialog EXCEPT ![t].updates[i].status = "committed"]
  /\ UNCHANGED << profileCalls, script, domainCall, submitCall, slugCall, members,
                  user_profile, now, tabs, createCall, joinReqs, profileReq >>

\* onSubmit after the await, the i-th call resolved: the success toast, and
\* handleClose removes the setup query parameter of the tab. The submit of
\* the form that issued the call has ended; a call of a dialog the tab has
\* replaced since ends in the same way.
SetupSubmitResolved(t, i) ==
  /\ i \in DOMAIN dialog[t].updates
  /\ dialog[t].updates[i].status = "committed"
  /\ dialog' = [dialog EXCEPT
                  ![t].updates[i].status = "resolved",
                  ![t].isSubmitted =
                    IF dialog[t].updates[i].instance = dialog[t].instance
                      THEN TRUE ELSE @]
  /\ tabs' = [tabs EXCEPT ![t].setup = FALSE]
  /\ UNCHANGED << profileCalls, script, domainCall, submitCall, slugCall, teams, members,
                  user_profile, now, createCall, joinReqs, profileReq >>

\* onSubmit after the await, the i-th call rejected: the catch block shows
\* the error toast; handleClose is not reached, so the setup query
\* parameter is left as it is.
SetupSubmitFailed(t, i) ==
  /\ i \in DOMAIN dialog[t].updates
  /\ dialog[t].updates[i].status = "pending"
  /\ dialog' = [dialog EXCEPT
                  ![t].updates[i].status = "failed",
                  ![t].isSubmitted =
                    IF dialog[t].updates[i].instance = dialog[t].instance
                      THEN TRUE ELSE @]
  /\ tabs' = [tabs EXCEPT ![t].errors = TRUE]
  /\ UNCHANGED << profileCalls, script, domainCall, submitCall, slugCall, teams, members,
                  user_profile, now, createCall, joinReqs, profileReq >>

----------------------------------------------------------------------------
(* Backend: a team created from the home page ("redirected to / where they  *)
(* can create their own org"), with a name of the same kind.               *)

createTeam(u, i, j) ==
  /\ Len(teams) < MaxTeams
  /\ LET name == generateRandomOrgName(i, j)
     IN  InsertOrganization(u, name, nameToSlug(name))
  /\ UNCHANGED << profileCalls, script, dialog, domainCall, submitCall, slugCall, user_profile, now, tabs, createCall,
                  joinReqs, profileReq >>

----------------------------------------------------------------------------
(* Backend: allowed_email_domains of a team.                               *)

\* UPDATE teams SET allowed_email_domains = ARRAY[...] WHERE slug = ...
SetAllowedDomains(o, domains) ==
  /\ o \in TeamIds
  /\ domains # teams[o].allowed_email_domains
  /\ teams' = [teams EXCEPT ![o].allowed_email_domains = domains]
  /\ UNCHANGED << profileCalls, script, dialog, domainCall, submitCall, slugCall, members, user_profile, now, tabs, createCall, joinReqs,
                  profileReq >>

----------------------------------------------------------------------------
(* Backend: POST /api/user/onboarding.                                     *)

\* Task 1, "validate request body": three non-empty texts.
ValidProfileBody(role, size, use) == schema(role, size, use)

ProfileRow(u, role, size, use, at) ==
  [user_id |-> u, role |-> role, company_size |-> size, use_case |-> use,
   onboarding_completed_at |-> at]

\* Variant: a plain insert, without the update of an existing row.
InsertProfile(rows, row) == Append(rows, row)

\* Task 2, "insert or update user_profile record", under UNIQUE(user_id).
UpsertProfile(rows, row) ==
  IF \E i \in DOMAIN rows : rows[i].user_id = row.user_id
    THEN [i \in DOMAIN rows |->
            IF rows[i].user_id = row.user_id THEN row ELSE rows[i]]
    ELSE Append(rows, row)

\* Variant: the save leaves onboarding_completed_at unset.
CompletedAtUnset(at) == NULL

\* Task 3: onboarding_completed_at = NOW().
CompletedAtOnSave(at) == at

SaveProfileRejected(u, role, size, use) ==
  /\ ~ValidProfileBody(role, size, use)
  /\ profileReq' = [user |-> u, role |-> role, company_size |-> size,
                    use_case |-> use, result |-> "ValidationError"]
  /\ UNCHANGED << profileCalls, script, dialog, domainCall, submitCall, slugCall, teams, members, user_profile, now, tabs,
                  createCall, joinReqs >>

\* Task 1 passed: the request of a user is accepted for writing. Requests
\* of several callers are in progress at the same time.
SaveProfileReceived(u, role, size, use) ==
  /\ ValidProfileBody(role, size, use)
  /\ now + BagCardinality(profileCalls) < MaxProfileWrites
  /\ profileCalls' = profileCalls (+) SetToBag({[user |-> u, role |-> role,
                                                 company_size |-> size,
                                                 use_case |-> use]})
  /\ UNCHANGED << script, dialog, domainCall, submitCall, slugCall, teams,
                  members, user_profile, now, tabs, createCall, joinReqs,
                  profileReq >>

\* Tasks 2, 3 and 5 for a request in progress, whichever is served next:
\* the row is written with the timestamp and the profile is returned.
SaveProfile(c) ==
  /\ BagIn(c, profileCalls)
  /\ now < MaxProfileWrites
  /\ now' = now + 1
  /\ user_profile' = UpsertProfile(user_profile,
                       ProfileRow(c.user, c.role, c.company_size,
                                  c.use_case, CompletedAtOnSave(now + 1)))
  /\ profileReq' = [user |-> c.user, role |-> c.role,
                    company_size |-> c.company_size,
                    use_case |-> c.use_case, result |-> "success"]
  /\ profileCalls' = profileCalls (-) SetToBag({c})
  /\ UNCHANGED << script, dialog, domainCall, submitCall, slugCall, teams, members, tabs, createCall, joinReqs >>

----------------------------------------------------------------------------
(* Backend: POST /api/organizations/{org_slug}/join.                       *)

\* A request of an authenticated user for an existing team arrives.
JoinRequest(u, o) ==
  /\ o \in TeamIds
  /\ Len(joinReqs) < MaxJoinReqs
  /\ joinReqs' = Append(joinReqs, [user |-> u, team |-> o, pc |-> "check",
                                   result |-> "pending",
                                   admittedAtInsert |-> TRUE])
  /\ UNCHANGED << profileCalls, script, dialog, domainCall, submitCall, slugCall, teams, members, user_profile, now, tabs,
                  createCall, profileReq >>

\* Task 5: the answer when the user is already a member.
AlreadyMemberAnswer == "AlreadyMember"

\* Tasks 1, 2 and 5: the user's domain must be in allowed_email_domains and the
\* user must not be a member yet; otherwise an error is thrown.
JoinCheckOutcome(u, o) ==
  IF ~DomainAllowed(u, o) THEN "DomainNotAllowed"
  ELSE IF IsMember(u, o) THEN AlreadyMemberAnswer
  ELSE "proceed"

JoinCheck(r) ==
  /\ r \in DOMAIN joinReqs
  /\ joinReqs[r].pc = "check"
  /\ LET out == JoinCheckOutcome(joinReqs[r].user, joinReqs[r].team)
     IN  joinReqs' = [joinReqs EXCEPT
           ![r].pc = IF out = "proceed" THEN "insert" ELSE "done",
           ![r].result = IF out = "proceed" THEN "pending" ELSE out]
  /\ UNCHANGED << profileCalls, script, dialog, domainCall, submitCall, slugCall, teams, members, user_profile, now, tabs,
                  createCall, profileReq >>

\* The repository's answer to one insert of a membership: a conflict when a
\* row for (user, team) exists.
InsertMembershipConflicts(u, o) == IsMember(u, o)

\* Variant: the join gives the administrative role.
JoinedMembershipAsAdmin(u, o) == [user_id |-> u, team_id |-> o, admin |-> TRUE]

\* Task 3: the member record, with the default role (not admin).
JoinedMembership(u, o) == [user_id |-> u, team_id |-> o, admin |-> FALSE]

\* Variant: the insert step verifies the allowed domains a second time and
\* answers 403 when they stopped admitting the user.
JoinCreateMemberRechecked(r) ==
  /\ r \in DOMAIN joinReqs
  /\ joinReqs[r].pc = "insert"
  /\ LET u == joinReqs[r].user
         o == joinReqs[r].team
     IN  IF InsertMembershipConflicts(u, o) \/ ~DomainAllowed(u, o)
           THEN /\ members' = members
                /\ joinReqs' = [joinReqs EXCEPT ![r].pc = "done",
                                  ![r].result = "403"]
           ELSE /\ members' = Append(members, JoinedMembership(u, o))
                /\ joinReqs' = [joinReqs EXCEPT ![r].pc = "done",
                                  ![r].result = "success"]
  /\ UNCHANGED << profileCalls, script, dialog, domainCall, submitCall, slugCall, teams, user_profile, now, tabs, createCall,
                  profileReq >>

JoinCreateMember(r) ==
  /\ r \in DOMAIN joinReqs
  /\ joinReqs[r].pc = "insert"
  /\ LET u == joinReqs[r].user
         o == joinReqs[r].team
     IN  IF InsertMembershipConflicts(u, o)
           THEN /\ members' = members
                /\ joinReqs' = [joinReqs EXCEPT ![r].pc = "done",
                                  ![r].result = AlreadyMemberAnswer]
           ELSE /\ members' = Append(members, JoinedMembership(u, o))
                /\ joinReqs' = [joinReqs EXCEPT ![r].pc = "done",
                                  ![r].result = "success",
                                  ![r].admittedAtInsert = DomainAllowed(u, o)]
  /\ UNCHANGED << profileCalls, script, dialog, domainCall, submitCall, slugCall, teams, user_profile, now, tabs, createCall,
                  profileReq >>

----------------------------------------------------------------------------
(* OnboardingQuestions.onSubmit with the profile saved through the API and  *)
(* the analytics event tracked ("Replace console.log with actual API call").*)

\* Whether trackEvent("onboarding_completed", ...) returns or throws.
TrackOutcomes == {"tracked", "throws"}

\* form.handleSubmit(onSubmit) with answers the schema accepts; onSubmit up
\* to its await: setIsSubmitting(true) and updateProfile.mutateAsync is
\* called with the answers of the form; the submit button is disabled while
\* isSubmitting. The form accepted the answers, so no field message is left.
onSubmit(t) ==
  /\ tabs[t].page = "onboarding"
  /\ schema(tabs[t].role, tabs[t].companySize, tabs[t].useCase)
  /\ submitCall[t].outcome # "pending"
  /\ submitCall' = [submitCall EXCEPT ![t] =
        [role |-> tabs[t].role, company_size |-> tabs[t].companySize,
         use_case |-> tabs[t].useCase,
         saved |-> FALSE, tracked |-> FALSE, outcome |-> "pending"]]
  /\ tabs' = [tabs EXCEPT ![t].formErrors = {}]
  /\ UNCHANGED << profileCalls, script, dialog, domainCall, slugCall, teams, members,
                  user_profile, now, createCall, joinReqs, profileReq >>

\* POST /api/user/onboarding serves the pending call of a tab: the profile
\* of the tab's user is saved as SaveProfile saves it.
onSubmitProfileSaved(t) ==
  LET c == submitCall[t]
  IN  /\ c.outcome = "pending"
      /\ ~c.saved
      /\ ValidProfileBody(c.role, c.company_size, c.use_case)
      /\ now < MaxProfileWrites
      /\ now' = now + 1
      /\ user_profile' = UpsertProfile(user_profile,
                           ProfileRow(TabUser(t), c.role, c.company_size,
                                      c.use_case, CompletedAtOnSave(now + 1)))
      /\ profileReq' = [user |-> TabUser(t), role |-> c.role,
                        company_size |-> c.company_size,
                        use_case |-> c.use_case, result |-> "success"]
      /\ submitCall' = [submitCall EXCEPT ![t].saved = TRUE]
      /\ UNCHANGED << profileCalls, script, dialog, domainCall, slugCall, teams, members,
                      tabs, createCall, joinReqs >>

\* onSubmit after the await, the call resolved: trackEvent is called inside
\* the same try: when it returns, navigate("/"); when it throws, the catch
\* block shows "Failed to save your profile. Please try again." and the tab
\* stays on /onboarding, the submit of the form having ended.
onSubmitTracked(t, track) ==
  /\ submitCall[t].outcome = "pending"
  /\ submitCall[t].saved
  /\ track \in TrackOutcomes
  /\ submitCall' = [submitCall EXCEPT
        ![t].tracked = (track = "tracked"),
        ![t].outcome = IF track = "tracked" THEN "navigated"
                                            ELSE "error-toast"]
  /\ IF track = "tracked"
       THEN tabs' = [tabs EXCEPT ![t] = Route("home", <<>>, FALSE)]
       ELSE tabs' = [tabs EXCEPT ![t].isSubmitted = TRUE]
  /\ UNCHANGED << profileCalls, script, dialog, domainCall, slugCall, teams, members,
                  user_profile, now, createCall, joinReqs, profileReq >>

\* onSubmit after the await, the call rejected (the request did not reach
\* the endpoint): nothing was saved, the catch block shows the same
\* message and the submit of the form has ended.
onSubmitSaveFailed(t) ==
  /\ submitCall[t].outcome = "pending"
  /\ ~submitCall[t].saved
  /\ submitCall' = [submitCall EXCEPT ![t].outcome = "error-toast"]
  /\ tabs' = [tabs EXCEPT ![t].isSubmitted = TRUE]
  /\ UNCHANGED << profileCalls, script, dialog, domainCall, slugCall, teams, members,
                  user_profile, now, createCall, joinReqs, profileReq >>

----------------------------------------------------------------------------
(* nameToSlug on its own: a name is given to both copies, to the first one  *)
(* a second time, and the slug returned is given to nameToSlug again.      *)

----------------------------------------------------------------------------
(* SetupOrgDialog: the company URL, the logo and the upload.               *)

\* The Company URL field is edited: after a Save that has ended the field is
\* validated at once; then the effect runs on the new value (its
\* form.setValue("name", ...) validates nothing).
setCompanyUrl(t, url) ==
  /\ DialogOpen(t)
  /\ url # dialog[t].companyUrl
  /\ dialog' = [dialog EXCEPT
                  ![t] = companyUrlEffect(
                           [@ EXCEPT
                              !.companyUrl = url,
                              !.formErrors =
                                Revalidated(dialog[t], "companyUrl", url)])]
  /\ UNCHANGED << profileCalls, script, domainCall, submitCall, slugCall, teams, members,
                  user_profile, now, tabs, createCall, joinReqs, profileReq >>

\* handleFileChange with no file, or with a file that is not an image: it
\* returns before the try block (after an error toast for the non-image).
FileRefusals == {"no-file", "not-image"}

handleFileChangeRefused(t, kind) ==
  /\ DialogOpen(t)
  /\ ~dialog[t].isUploading
  /\ dialog' = [dialog EXCEPT ![t].attempt = kind]
  /\ UNCHANGED << profileCalls, script, domainCall, submitCall, slugCall, teams, members,
                  user_profile, now, tabs, createCall, joinReqs, profileReq >>

\* handleFileChange with an image, up to await file.arrayBuffer(): the
\* upload button is disabled while isUploading; isUploading is set and the
\* path is made from a fresh UUID and the extension of the file name.
handleFileChange(t, fileName) ==
  /\ DialogOpen(t)
  /\ ~dialog[t].isUploading
  /\ dialog[t].uploads < MaxUploads
  /\ dialog' = [dialog EXCEPT
                  ![t].isUploading = TRUE,
                  ![t].uploads = @ + 1,
                  ![t].path = UploadPath(dialog[t].uploads + 1,
                                         FileExtension(fileName)),
                  ![t].attempt = "reading"]
  /\ UNCHANGED << profileCalls, script, domainCall, submitCall, slugCall, teams, members,
                  user_profile, now, tabs, createCall, joinReqs, profileReq >>

\* file.arrayBuffer() resolved: writeFile.mutateAsync({path, contentType,
\* content}) is called.
arrayBufferResolved(t) ==
  /\ dialog[t].attempt = "reading"
  /\ dialog' = [dialog EXCEPT ![t].attempt = "writing"]
  /\ UNCHANGED << profileCalls, script, domainCall, submitCall, slugCall, teams, members,
                  user_profile, now, tabs, createCall, joinReqs, profileReq >>

\* file.arrayBuffer() rejected: the catch block shows the error toast and
\* finally clears isUploading; no write was started.
arrayBufferRejected(t) ==
  /\ dialog[t].attempt = "reading"
  /\ dialog' = [dialog EXCEPT ![t].isUploading = FALSE,
                              ![t].attempt = "unread"]
  /\ UNCHANGED << profileCalls, script, domainCall, submitCall, slugCall, teams, members,
                  user_profile, now, tabs, createCall, joinReqs, profileReq >>

\* writeFile resolved: the path and the address of the file are set, finally
\* clears isUploading, and the effect runs because uploadedLogoPath changed.
writeFileResolved(t) ==
  /\ dialog[t].attempt = "writing"
  /\ dialog' = [dialog EXCEPT
                  ![t] = companyUrlEffect(
                           [@ EXCEPT !.uploadedLogoPath = dialog[t].path,
                                     !.logoUrl = UploadUrl(dialog[t].path),
                                     !.isUploading = FALSE,
                                     !.attempt = "uploaded"])]
  /\ UNCHANGED << profileCalls, script, domainCall, submitCall, slugCall, teams, members,
                  user_profile, now, tabs, createCall, joinReqs, profileReq >>

\* writeFile rejected: the catch block shows the error toast and finally
\* clears isUploading.
writeFileRejected(t) ==
  /\ dialog[t].attempt = "writing"
  /\ dialog' = [dialog EXCEPT ![t].isUploading = FALSE,
                              ![t].attempt = "failed"]
  /\ UNCHANGED << profileCalls, script, domainCall, submitCall, slugCall, teams, members,
                  user_profile, now, tabs, createCall, joinReqs, profileReq >>

----------------------------------------------------------------------------
(* vps-setup.sh: main and its steps.                                       *)

\* main "$@" on a machine: check_root only prints, check_resources is next.
scriptStart(ram, node, pkg) ==
  /\ script.pc = "idle"
  /\ script' = [NoScript EXCEPT !.pc = "check_resources", !.ram = ram,
                                !.node = node, !.pkg = pkg]
  /\ UNCHANGED << profileCalls, dialog, domainCall, submitCall, slugCall, teams, members,
                  user_profile, now, tabs, createCall, joinReqs, profileReq >>

\* if check_resources: below 4096 MB it returns 1 and the else branch exits
\* with 1; CPU and disk only warn.
check_resources ==
  /\ script.pc = "check_resources"
  /\ script' = IF script.ram < MinRamMb
                 THEN [script EXCEPT !.pc = "exited", !.exit = "1",
                                     !.ran = Append(@, "check_resources")]
                 ELSE [script EXCEPT !.pc = "setup_nodejs",
                                     !.ran = Append(@, "check_resources")]
  /\ UNCHANGED << profileCalls, dialog, domainCall, submitCall, slugCall, teams, members,
                  user_profile, now, tabs, createCall, joinReqs, profileReq >>

\* The verification after the install: NEW_NODE_VERSION is field 1 of
\* node --version cut at "v", compared with the text v24.
VerifyInstalled(version) == cut(version, "v", 1) = <<"v","2","4">>

\* setup_nodejs, called under set -e: return 0 when the major version is
\* already 24; else install with the package manager found (none: return 1),
\* then verify. An install command that fails ends the script there with the
\* command's status, before the function returns; a return 1 ends the script
\* with 1.
setup_nodejs(installStatus) ==
  /\ script.pc = "setup_nodejs"
  /\ installStatus \in CommandStatuses
  /\ LET CURRENT_NODE_VERSION == cut(cut(script.node, "v", 2), ".", 1)
         ran == Append(script.ran, "setup_nodejs")
     IN  script' =
           IF ArithValue(CURRENT_NODE_VERSION) = REQUIRED_NODE_VERSION
             THEN [script EXCEPT !.pc = "setup_jsr_registry", !.ran = ran,
                                 !.nodejs = "0"]
           ELSE IF script.pkg = "none"
             THEN [script EXCEPT !.pc = "exited", !.ran = ran,
                                 !.nodejs = "1", !.exit = "1"]
           ELSE IF installStatus # "0"
             THEN [script EXCEPT !.pc = "exited", !.ran = ran,
                                 !.install = "failed",
                                 !.exit = installStatus]
           ELSE IF VerifyInstalled(InstalledNodeVersion)
             THEN [script EXCEPT !.pc = "setup_jsr_registry", !.ran = ran,
                                 !.node = InstalledNodeVersion,
                                 !.install = "installed", !.nodejs = "0"]
           ELSE [script EXCEPT !.pc = "exited", !.ran = ran,
                               !.node = InstalledNodeVersion,
                               !.install = "installed", !.nodejs = "1",
                               !.exit = "1"]
  /\ UNCHANGED << profileCalls, dialog, domainCall, submitCall, slugCall, teams, members,
                  user_profile, now, tabs, createCall, joinReqs, profileReq >>

\* The position of a step in main.
StepIndex(step) == CHOOSE i \in DOMAIN MainSteps : MainSteps[i] = step

\* One of the steps after setup_nodejs runs: when all its commands succeed
\* the next step follows (after validate_configuration the script ends with
\* 0); a failing command ends the script under set -e with that command's
\* status.
runStep(status) ==
  /\ script.pc \in { MainSteps[i] : i \in 3..Len(MainSteps) }
  /\ status \in CommandStatuses
  /\ LET i == StepIndex(script.pc)
         ran == Append(script.ran, script.pc)
     IN  script' =
           IF status # "0" THEN [script EXCEPT !.pc = "exited", !.ran = ran,
                                               !.exit = status]
           ELSE IF i = Len(MainSteps)
             THEN [script EXCEPT !.pc = "exited", !.ran = ran, !.exit = "0"]
           ELSE [script EXCEPT !.pc = MainSteps[i + 1], !.ran = ran]
  /\ UNCHANGED << profileCalls, dialog, domainCall, submitCall, slugCall, teams, members,
                  user_profile, now, tabs, createCall, joinReqs, profileReq >>

\* const userDomain = extractDomain(userEmail)
extractDomainCall ==
  /\ domainCall.pc = "idle"
  /\ domainCall' = [domainCall EXCEPT !.pc = "done",
                                      !.domain = extractDomain(domainCall.email)]
  /\ UNCHANGED << profileCalls, script, dialog, submitCall, slugCall, teams, members,
                  user_profile, now, tabs, createCall, joinReqs, profileReq >>

nameToSlugCalls ==
  /\ slugCall.pc = "idle"
  /\ slugCall' = [slugCall EXCEPT
                    !.pc = "done",
                    !.first = nameToSlug(slugCall.name),
                    !.second = nameToSlug(slugCall.name),
                    !.dialog = nameToSlugDialog(slugCall.name),
                    !.nested = nameToSlug(nameToSlug(slugCall.name))]
  /\ UNCHANGED << profileCalls, script, dialog, domainCall, submitCall, teams, members, user_profile, now, tabs, createCall,
                  joinReqs, profileReq >>

----------------------------------------------------------------------------
(* The system.                                                             *)

\* The onboarding pages and the Save button of the setup dialog.
NextPages ==
  \/ \E t \in Tabs, field \in QuestionFields :
       selectAnswer(t, field, Answers[field])
  \/ \E t \in Tabs : QuestionsRejected(t)
  \/ \E t \in Tabs : QuestionsSubmit(t)
  \/ \E t \in Tabs, m \in DOMAIN MOCK_JOINABLE_ORGS : handleJoinOrg(t, m)
  \/ \E t \in Tabs, i \in 1..MaxNameIdx : handleCreateNew(t, i, 1)
  \/ \E t \in Tabs, k \in 1..MaxCreateCalls : createTeamCommitted(t, k)
  \/ \E t \in Tabs, k \in 1..MaxCreateCalls, remount \in BOOLEAN :
       createTeamResolved(t, k, remount)
  \/ \E t \in Tabs, k \in 1..MaxCreateCalls : createTeamRejected(t, k)
  \/ \E t \in Tabs : SetupSubmit(t)
  \/ \E t \in Tabs, i \in 1..MaxUpdateCalls : updateTeamCommitted(t, i)
  \/ \E t \in Tabs, i \in 1..MaxUpdateCalls : SetupSubmitResolved(t, i)

\* The save-profile endpoint over all the answers of the model, with
\* several requests in progress.
NextProfile ==
  \/ \E u \in Users, role \in RoleInputs, size \in SizeInputs,
        use \in UseCaseInputs :
       \/ SaveProfileRejected(u, role, size, use)
       \/ SaveProfileReceived(u, role, size, use)
  \/ \E c \in BagToSet(profileCalls) : SaveProfile(c)

\* The save-profile endpoint with requests of both users in progress at the
\* same time, each with answers of the option lists.
NextResubmit ==
  \/ \E u \in Users, role \in AnswerInputs("role"),
        use \in {"internal-apps", "ai-saas"} :
       SaveProfileReceived(u, role, "2-25", use)
  \/ \E c \in BagToSet(profileCalls) : SaveProfile(c)

SpecResubmit == Init /\ [][NextResubmit]_vars

\* Teams, their allowed domains and the join endpoint.
NextBackend ==
  \/ \E u \in Users, i \in 1..MaxNameIdx : createTeam(u, i, 1)
  \/ \E o \in TeamIds, domains \in SUBSET DomainPool :
       SetAllowedDomains(o, domains)
  \/ \E u \in Users, o \in TeamIds : JoinRequest(u, o)
  \/ \E r \in DOMAIN joinReqs : JoinCheck(r)
  \/ \E r \in DOMAIN joinReqs : JoinCreateMember(r)

\* One team, its allowed domains (none, or the domain of the first user), the
\* profile writes with one fixed set of
\* answers (and one empty answer), and the joins of one user: through the
\* join endpoint, and through the join page of the user's tab.
NextStage ==
  \/ createTeam("u2", 1, 1)
  \/ \E o \in TeamIds, domains \in {{}, {UserDomain("u1")}} :
       SetAllowedDomains(o, domains)
  \/ \E u \in Users, role \in {"", "engineering"} :
       \/ SaveProfileRejected(u, role, "2-25", "internal-apps")
       \/ SaveProfileReceived(u, role, "2-25", "internal-apps")
  \/ \E c \in BagToSet(profileCalls) : SaveProfile(c)
  \/ \E o \in TeamIds : JoinRequest("u1", o)
  \/ \E r \in DOMAIN joinReqs : JoinCheck(r)
  \/ \E r \in DOMAIN joinReqs : JoinCreateMember(r)
  \/ \E field \in QuestionFields : selectAnswer("t1", field, Answers[field])
  \/ QuestionsSubmit("t1")
  \/ \E m \in DOMAIN MOCK_JOINABLE_ORGS : handleJoinOrg("t1", m)

\* The pages of two users with a repository that may be unreachable during
\* a create, the profile save of one user and the joins of that user.
NextOutage ==
  \/ \E t \in SetupTabs, field \in QuestionFields :
       selectAnswer(t, field, Answers[field])
  \/ \E t \in SetupTabs : QuestionsSubmit(t)
  \/ \E t \in SetupTabs : handleCreateNew(t, 1, 1)
  \/ \E t \in SetupTabs, k \in 1..MaxCreateCalls : createTeamCommitted(t, k)
  \/ \E t \in SetupTabs, k \in 1..MaxCreateCalls, remount \in BOOLEAN :
       createTeamResolved(t, k, remount)
  \/ \E t \in SetupTabs, k \in 1..MaxCreateCalls : createTeamRejected(t, k)
  \/ \E t \in SetupTabs, k \in 1..MaxCreateCalls :
       createTeamUnavailable(t, k)
  \/ SaveProfileReceived("u1", "engineering", "2-25", "internal-apps")
  \/ \E c \in BagToSet(profileCalls) : SaveProfile(c)
  \/ \E o \in TeamIds : SetAllowedDomains(o, {UserDomain("u1")})
  \/ \E o \in TeamIds : JoinRequest("u1", o)
  \/ \E r \in DOMAIN joinReqs : JoinCheck(r)
  \/ \E r \in DOMAIN joinReqs : JoinCreateMember(r)

SpecOutage == Init /\ [][NextOutage]_vars

\* extractDomain applied to an email.
NextDomain == extractDomainCall

InitDomain ==
  /\ InitApp
  /\ slugCall = NoSlugCall
  /\ domainCall \in { [NoDomainCall EXCEPT !.email = e] : e \in EmailInputs }

SpecDomain == InitDomain /\ [][NextDomain]_vars

\* One tab creating a team from every name the generator can produce, and
\* the name field and the Save button of the setup dialog it is taken to.
NextCreate ==
  \/ \E field \in QuestionFields : selectAnswer("t1", field, Answers[field])
  \/ QuestionsSubmit("t1")
  \/ \E i \in DOMAIN ADJECTIVES, j \in DOMAIN NOUNS : handleCreateNew("t1", i, j)
  \/ \E k \in 1..MaxCreateCalls : createTeamCommitted("t1", k)
  \/ \E k \in 1..MaxCreateCalls, remount \in BOOLEAN :
       createTeamResolved("t1", k, remount)
  \/ \E name \in SymbolNameInputs : setName("t1", name)
  \/ SetupSubmit("t1")

SpecCreate == Init /\ [][NextCreate]_vars

\* The way into the setup dialog and its Save button, with updateTeam
\* succeeding or failing; the first tab may click Join and create a second
\* team while a create is in flight, and the fields of its dialog are
\* edited.
NextSetup ==
  \/ \E t \in SetupTabs, field \in QuestionFields :
       selectAnswer(t, field, Answers[field])
  \/ \E t \in SetupTabs : QuestionsSubmit(t)
  \/ \E m \in DOMAIN MOCK_JOINABLE_ORGS : handleJoinOrg("t1", m)
  \/ \E m \in DOMAIN MOCK_JOINABLE_ORGS : handleJoinOrgRoutePending("t1", m)
  \/ routeRendered("t1")
  \/ \E t \in SetupTabs, i \in 1..MaxNameIdx : handleCreateNew(t, i, 1)
  \/ \E t \in SetupTabs, k \in 1..MaxCreateCalls : createTeamCommitted(t, k)
  \/ \E t \in SetupTabs, k \in 1..MaxCreateCalls, remount \in BOOLEAN :
       createTeamResolved(t, k, remount)
  \/ \E t \in SetupTabs, k \in 1..MaxCreateCalls : createTeamRejected(t, k)
  \/ \E name \in SetupNameInputs \cup {<<>>} : setName("t1", name)
  \/ setCompanyUrl("t1", <<>>)
  \/ \E t \in SetupTabs : SetupSubmitRejected(t)
  \/ \E t \in SetupTabs : SetupSubmit(t)
  \/ \E t \in SetupTabs, i \in 1..MaxUpdateCalls : updateTeamCommitted(t, i)
  \/ \E t \in SetupTabs, i \in 1..MaxUpdateCalls : SetupSubmitResolved(t, i)
  \/ \E t \in SetupTabs, i \in 1..MaxUpdateCalls : SetupSubmitFailed(t, i)

SpecSetup == Init /\ [][NextSetup]_vars

\* The clicks on the join page of one tab in every order, with createTeam
\* settling at any time and the route of a Join click rendering at once or
\* later.
NextClicks ==
  \/ \E field \in QuestionFields : selectAnswer("t1", field, Answers[field])
  \/ QuestionsSubmit("t1")
  \/ \E m \in DOMAIN MOCK_JOINABLE_ORGS : handleJoinOrg("t1", m)
  \/ \E m \in DOMAIN MOCK_JOINABLE_ORGS : handleJoinOrgRoutePending("t1", m)
  \/ routeRendered("t1")
  \/ \E i \in 1..MaxNameIdx, j \in 1..MaxNameIdx : handleCreateNew("t1", i, j)
  \/ \E k \in 1..MaxCreateCalls : createTeamCommitted("t1", k)
  \/ \E k \in 1..MaxCreateCalls, remount \in BOOLEAN :
       createTeamResolved("t1", k, remount)
  \/ \E k \in 1..MaxCreateCalls : createTeamRejected("t1", k)
  \/ \E k \in 1..MaxCreateCalls : createTeamUnavailable("t1", k)

SpecClicks == Init /\ [][NextClicks]_vars

\* The setup dialog of one tab, reached by creating a team: the company
\* URL and the logo upload.
NextDialog ==
  \/ \E field \in QuestionFields : selectAnswer("t1", field, Answers[field])
  \/ QuestionsSubmit("t1")
  \/ handleCreateNew("t1", 1, 1)
  \/ \E k \in 1..MaxCreateCalls : createTeamCommitted("t1", k)
  \/ \E k \in 1..MaxCreateCalls, remount \in BOOLEAN :
       createTeamResolved("t1", k, remount)
  \/ \E url \in CompanyUrlInputs : setCompanyUrl("t1", url)
  \/ \E kind \in FileRefusals : handleFileChangeRefused("t1", kind)
  \/ \E fileName \in FileNames : handleFileChange("t1", fileName)
  \/ arrayBufferResolved("t1")
  \/ arrayBufferRejected("t1")
  \/ writeFileResolved("t1")
  \/ writeFileRejected("t1")

SpecDialog == Init /\ [][NextDialog]_vars

\* vps-setup.sh run once on a machine.
NextScript ==
  \/ \E ram \in RamInputs, node \in NodeVersions, pkg \in PackageManagers :
       scriptStart(ram, node, pkg)
  \/ check_resources
  \/ \E installStatus \in CommandStatuses : setup_nodejs(installStatus)
  \/ \E status \in CommandStatuses : runStep(status)

SpecScript == Init /\ [][NextScript]_vars

\* nameToSlug applied to a name.
NextSlug == nameToSlugCalls

Next == NextPages \/ NextProfile \/ NextBackend \/ NextSlug

Spec == Init /\ [][Next]_vars

\* The pages alone, and the backend alone: each reaches every state of the
\* tables that Spec reaches through its own actions.
SpecPages == Init /\ [][NextPages]_vars

SpecProfile == Init /\ [][NextProfile]_vars

SpecBackend == Init /\ [][NextBackend]_vars

SpecStage == Init /\ [][NextStage]_vars

\* The questions page with the profile saved through the API.
NextSubmit ==
  \/ \E t \in Tabs, field \in QuestionFields :
       \E value \in AnswerInputs(field) : selectAnswer(t, field, value)
  \/ \E t \in Tabs : QuestionsRejected(t)
  \/ \E t \in Tabs : onSubmit(t)
  \/ \E t \in Tabs : onSubmitProfileSaved(t)
  \/ \E t \in Tabs, track \in TrackOutcomes : onSubmitTracked(t, track)
  \/ \E t \in Tabs : onSubmitSaveFailed(t)

SpecSubmit == Init /\ [][NextSubmit]_vars

\* nameToSlug over every name of NameInputs.
InitSlug ==
  /\ InitApp
  /\ domainCall = NoDomainCall
  /\ slugCall \in { [NoSlugCall EXCEPT !.name = x] : x \in NameInputs }

SpecSlug == InitSlug /\ [][NextSlug]_vars

----------------------------------------------------------------------------
(* The onboarding stage of a user, as the profile endpoint lets a client   *)
(* compute it: no profile row, a row without onboarding_completed_at, a    *)
(* row with it. Without the timestamp, the user is awaiting a choice when  *)
(* some team is joinable.                                                  *)

ProfileOf(u) == user_profile[CHOOSE i \in ProfileRows(u) : TRUE]

GetStage(u) ==
  IF ProfileRows(u) = {} THEN "NotStarted"
  ELSE IF ProfileOf(u).onboarding_completed_at # NULL THEN "Completed"
  ELSE IF FindJoinable(UserDomain(u), teams) # {} THEN "AwaitingOrgChoice"
  ELSE "ProfileCollected"

StageRank(stage) ==
  CASE stage = "NotStarted" -> 0
    [] stage = "ProfileCollected" -> 1
    [] stage = "AwaitingOrgChoice" -> 2
    [] stage = "Completed" -> 3

----------------------------------------------------------------------------
(* Properties.                                                             *)

\* Two distinct join requests of the same user for the same team, both
\* answered, neither of them refused for the domain.
AnsweredPair(r1, r2) ==
  /\ r1 # r2
  /\ joinReqs[r1].user = joinReqs[r2].user
  /\ joinReqs[r1].team = joinReqs[r2].team
  /\ joinReqs[r1].pc = "done" /\ joinReqs[r2].pc = "done"
  /\ joinReqs[r1].result # "DomainNotAllowed"
  /\ joinReqs[r2].result # "DomainNotAllowed"

\* C1: two joins of the same user into the same team, admitted by the
\* policy, leave exactly one membership row and both report success.
C1_BothJoinsSucceed ==
  \A r1, r2 \in DOMAIN joinReqs :
    AnsweredPair(r1, r2) =>
      /\ Cardinality(MemberRows(joinReqs[r1].user, joinReqs[r1].team)) = 1
      /\ joinReqs[r1].result = "success"
      /\ joinReqs[r2].result = "success"

\* Teams a user created: those holding the user's administrative membership.
CreatedBy(u) ==
  { o \in TeamIds : \E i \in MemberRows(u, o) : members[i].admin }

\* The create calls issued so far, each as <<tab, index>>, and the record of
\* one of them.
CreateCalls == { <<t, k>> : t \in Tabs, k \in 1..MaxCreateCalls + 1 } \cap
               { c \in Tabs \X Nat : c[2] \in DOMAIN createCall[c[1]] }

CallAt(c) == createCall[c[1]][c[2]]

\* C2 as stated: the create calls one user issues from the join page never
\* leave two organizations created for that user.
C2_OneOrgPerUser ==
  /\ \A u \in Users : Cardinality(CreatedBy(u)) <= 1
  /\ \A c1, c2 \in CreateCalls :
       (c1 # c2 /\ TabUser(c1[1]) = TabUser(c2[1])) =>
         ~(CallAt(c1).status = "created" /\ CallAt(c2).status = "created")

\* C3 as stated: two create calls of one user with the same name both succeed,
\* as two organizations whose slugs are the name's slug and that slug with "-2".
C3_SameNameSuffixed ==
  \A c1, c2 \in CreateCalls :
    ( /\ c1 # c2
      /\ TabUser(c1[1]) = TabUser(c2[1])
      /\ CallAt(c1).name = CallAt(c2).name
      /\ CallAt(c1).status \in {"created", "failed"}
      /\ CallAt(c2).status \in {"created", "failed"} ) =>
      /\ CallAt(c1).status = "created"
      /\ CallAt(c2).status = "created"
      /\ { teams[CallAt(c1).team].slug, teams[CallAt(c2).team].slug }
           = { nameToSlug(CallAt(c1).name),
               nameToSlug(CallAt(c1).name) \o <<"-", "2">> }

\* C4: no two organizations have the same slug.
C4_SlugsUnique ==
  \A a, b \in TeamIds : a # b => teams[a].slug # teams[b].slug

\* Create calls of several tabs were served: two organizations exist, one of
\* them renamed by the setup dialog, and a create call whose slug another
\* call had taken was refused.
C4_Witness ==
  /\ Len(teams) >= 2
  /\ \E c \in CreateCalls :
       /\ CallAt(c).status = "failed"
       /\ \E d \in CreateCalls :
            /\ CallAt(d).status = "created"
            /\ CallAt(d).slug = CallAt(c).slug
  /\ \E o \in TeamIds : nameToSlug(teams[o].name) # teams[o].slug

\* C5 as stated: a create call whose slug collides retries with numeric
\* suffixes and, when it fails, fails with SlugExhausted after its retries.
C5_RetriesThenExhausted ==
  \A c \in CreateCalls :
    CallAt(c).status = "failed" =>
      /\ CallAt(c).error = "SlugExhausted"
      /\ CallAt(c).attempts > 1

\* Domains for which joinable organizations are looked up: the users' domains
\* and the empty domain.
LookupDomains == { UserDomain(u) : u \in Users } \cup { <<>> }

\* C6 as stated: an organization is joinable for a domain exactly when one
\* entry of its domain set equals the domain case-insensitively (an
\* organization that is not open has no entry); none is for the empty domain.
C6_CaseInsensitiveMatch ==
  \A d \in LookupDomains, o \in TeamIds :
    o \in FindJoinable(d, teams) <=>
      /\ d # <<>>
      /\ \E e \in teams[o].allowed_email_domains :
           toLowerCase(e) = toLowerCase(d)

\* C7 as stated: a join of a user into an organization whose allowed domains
\* do not admit the user's domain at that moment fails with DomainNotAllowed,
\* inserts no membership and leaves the stage of every user as it was, at
\* the join endpoint and on the join page alike: a Join click takes the tab
\* to the page of an organization only when the organization of that slug
\* admits the user.
C7_JoinRechecksPolicy ==
  [][ /\ \A r \in DOMAIN joinReqs :
           ( /\ joinReqs[r].pc = "check"
             /\ joinReqs'[r].pc # "check"
             /\ ~DomainAllowed(joinReqs[r].user, joinReqs[r].team) ) =>
             /\ joinReqs'[r].pc = "done"
             /\ joinReqs'[r].result = "DomainNotAllowed"
             /\ members' = members
             /\ \A u \in Users : GetStage(u)' = GetStage(u)
      /\ \A t \in Tabs :
           ( /\ tabs[t].page = "join"
             /\ tabs'[t].page = "org"
             /\ ~tabs'[t].setup ) =>
             \E o \in TeamIds :
               /\ teams[o].slug = tabs'[t].slug
               /\ DomainAllowed(TabUser(t), o) ]_vars

\* C8 as stated: a save-profile request with an answer outside its enumeration
\* fails with ValidationError and stores nothing.
C8_EnumValidation ==
  /\ profileReq.result = "success" =>
       /\ profileReq.role \in ROLES
       /\ profileReq.company_size \in COMPANY_SIZES
       /\ profileReq.use_case \in USE_CASES
  /\ \A i \in DOMAIN user_profile :
       /\ user_profile[i].role \in ROLES
       /\ user_profile[i].company_size \in COMPANY_SIZES
       /\ user_profile[i].use_case \in USE_CASES

\* The profile rows of a user, as a set of rows.
ProfilesOf(u) == { user_profile[i] : i \in ProfileRows(u) }

\* C9: every user has at most one profile row; an accepted save leaves the
\* saving user with one row holding the answers just sent, and leaves the
\* rows of every other user as they were.
C9_UpsertOneRow ==
  [][ /\ \A u \in Users : Cardinality(ProfileRows(u)') <= 1
      /\ user_profile' # user_profile =>
           /\ profileReq'.result = "success"
           /\ \A u \in Users :
                IF u = profileReq'.user
                  THEN /\ Cardinality(ProfilesOf(u)') = 1
                       /\ \A row \in ProfilesOf(u)' :
                            /\ row.role = profileReq'.role
                            /\ row.company_size = profileReq'.company_size
                            /\ row.use_case = profileReq'.use_case
                  ELSE ProfilesOf(u)' = ProfilesOf(u) ]_vars

\* Two users hold one row each: the first user saved, then the second, then
\* the first again with other answers; the first user's row is still the
\* first row and holds the later answers, and the second user's row is as it
\* was written.
C9_Witness ==
  /\ Len(user_profile) = 2
  /\ user_profile[1] = ProfileRow("u1", "product", "2-25", "ai-saas", 3)
  /\ user_profile[2] = ProfileRow("u2", "engineering", "2-25",
                                  "internal-apps", 2)
  /\ profileReq.user = "u1"

\* C10: no step moves a user to an earlier stage of NotStarted,
\* ProfileCollected, AwaitingOrgChoice, Completed; Completed is never left.
C10_StageOnlyForward ==
  [][ \A u \in Users :
        StageRank(GetStage(u)') >= StageRank(GetStage(u)) ]_vars

\* A user who is Completed saved the profile again, after a join was refused
\* and while the team's allowed domains admit the user.
C10_Witness ==
  \E u \in Users :
    /\ GetStage(u) = "Completed"
    /\ ProfileOf(u).onboarding_completed_at >= 2
    /\ \E r \in DOMAIN joinReqs :
         joinReqs[r].user = u /\ joinReqs[r].result = "DomainNotAllowed"
    /\ FindJoinable(UserDomain(u), teams) # {}

\* Rows of the members table of a user, in any team.
MembershipsOf(u) == { i \in DOMAIN members : members[i].user_id = u }

\* Teams a user is a member of.
TeamsOf(u) == { o \in TeamIds : IsMember(u, o) }

\* C11 as stated: once a user is Completed, a join or create call of that user
\* is a no-op: it adds no membership and no organization of the user, and a
\* join of the user is not answered with an error.
C11_CompletedIsNoOp ==
  [][ \A u \in Users :
        GetStage(u) = "Completed" =>
          /\ MembershipsOf(u)' = MembershipsOf(u)
          /\ CreatedBy(u)' = CreatedBy(u)
          /\ \A r \in DOMAIN joinReqs :
               ( /\ joinReqs[r].user = u
                 /\ joinReqs[r].pc # "done"
                 /\ joinReqs'[r].pc = "done" ) =>
                 joinReqs'[r].result = "success" ]_vars

\* C12 as stated: a user whose stage is Completed is a member of exactly one
\* organization.
C12_CompletedHasOneHome ==
  \A u \in Users :
    GetStage(u) = "Completed" => Cardinality(TeamsOf(u)) = 1

\* C13 as stated: the step that ends a user's profile collection puts the
\* user in AwaitingOrgChoice when some organization is joinable at that moment
\* and in Completed when none is, and a Completed user stays Completed when an
\* organization opens to the user's domain afterwards.
C13_DecidedOnceAtCollection ==
  [][ \A u \in Users :
        /\ ( GetStage(u) = "NotStarted" /\ GetStage(u)' # "NotStarted" ) =>
             GetStage(u)' = IF FindJoinable(UserDomain(u), teams) # {}
                              THEN "AwaitingOrgChoice"
                              ELSE "Completed"
        /\ GetStage(u) = "Completed" => GetStage(u)' = "Completed" ]_vars

\* C14 as stated: the completion timestamp of a profile is set exactly when
\* the user is Completed, and the save that takes a user out of NotStarted
\* stores the three answers, leaves the timestamp unset and puts the user in
\* ProfileCollected or AwaitingOrgChoice.
C14_TimestampOnlyWhenCompleted ==
  [][ \A u \in Users :
        /\ ProfileRows(u)' # {} =>
             ( ProfileOf(u)'.onboarding_completed_at # NULL
                 <=> GetStage(u)' = "Completed" )
        /\ ( GetStage(u) = "NotStarted" /\ ProfileRows(u)' # {} ) =>
             /\ ProfileOf(u)'.role = profileReq'.role
             /\ ProfileOf(u)'.company_size = profileReq'.company_size
             /\ ProfileOf(u)'.use_case = profileReq'.use_case
             /\ ProfileOf(u)'.onboarding_completed_at = NULL
             /\ GetStage(u)' \in {"ProfileCollected", "AwaitingOrgChoice"} ]_vars

\* C17 as stated, for the user a@acme.com (u1) and a team whose allowed
\* domains hold "@acme.com": without a profile the stage is NotStarted; the
\* valid save puts the user in AwaitingOrgChoice with exactly that team
\* joinable; the successful join puts the user in Completed as a member of
\* that team.
C17_EndToEndJoin ==
  [][ /\ ProfileRows("u1") = {} => GetStage("u1") = "NotStarted"
      /\ \A o \in TeamIds :
           ( /\ ProfileRows("u1") = {}
             /\ ProfileRows("u1")' # {}
             /\ FindJoinable(UserDomain("u1"), teams) = {o} ) =>
             /\ GetStage("u1")' = "AwaitingOrgChoice"
             /\ FindJoinable(UserDomain("u1"), teams') = {o}
      /\ \A r \in DOMAIN joinReqs :
           ( /\ joinReqs[r].user = "u1"
             /\ joinReqs[r].pc # "done"
             /\ joinReqs'[r].pc = "done"
             /\ joinReqs'[r].result = "success" ) =>
             /\ GetStage("u1")' = "Completed"
             /\ IsMember("u1", joinReqs[r].team)' ]_vars

----------------------------------------------------------------------------
(* The slug a name ought to have, computed from the words of the name: the *)
(* maximal runs of characters of [a-z0-9] of the lowercased name, joined   *)
(* by single hyphens.                                                     *)

\* The words of a text from position i on; w is the word being read.
RECURSIVE WordsFrom(_, _, _)
WordsFrom(s, i, w) ==
  IF i > Len(s) THEN (IF w = <<>> THEN <<>> ELSE << w >>)
  ELSE IF IsSlugChar(s[i]) THEN WordsFrom(s, i + 1, Append(w, s[i]))
  ELSE (IF w = <<>> THEN <<>> ELSE << w >>) \o WordsFrom(s, i + 1, <<>>)

RECURSIVE JoinWithHyphens(_)
JoinWithHyphens(ws) ==
  IF ws = <<>> THEN <<>>
  ELSE IF Len(ws) = 1 THEN ws[1]
  ELSE ws[1] \o <<"-">> \o JoinWithHyphens(Tail(ws))

\* C15: nameToSlug returns the same slug for the same name on every call and
\* in both of its copies, and the slug of a slug is that slug.
C15_SlugIdempotent ==
  slugCall.pc = "done" =>
    /\ slugCall.first = slugCall.second
    /\ slugCall.dialog = slugCall.first
    /\ slugCall.nested = slugCall.first
    /\ slugCall.first = nameToSlug(slugCall.name)

\* The name " A!" was given: its slug is "a", and so is the slug of "a".
C15_Witness ==
  /\ slugCall.pc = "done"
  /\ slugCall.name = <<" ", "A", "!">>
  /\ slugCall.first = <<"a">>
  /\ slugCall.nested = <<"a">>

\* C16: the slug is the lowercased name with every maximal run of characters
\* outside [a-z0-9] replaced by one "-" and the hyphens at both ends removed:
\* it holds only characters of [a-z0-9-], does not start or end with "-", has
\* no "--", and is empty exactly when no character of the name lowercases
\* into [a-z0-9].
C16_SlugShape ==
  slugCall.pc = "done" =>
    LET slug == slugCall.first
        lower == toLowerCase(slugCall.name)
    IN  /\ slug = JoinWithHyphens(WordsFrom(lower, 1, <<>>))
        /\ \A i \in DOMAIN slug : IsSlugChar(slug[i]) \/ slug[i] = "-"
        /\ slug # <<>> => slug[1] # "-" /\ slug[Len(slug)] # "-"
        /\ \A i \in 1..(Len(slug) - 1) : ~(slug[i] = "-" /\ slug[i + 1] = "-")
        /\ slug = <<>> <=> \A i \in DOMAIN lower : ~IsSlugChar(lower[i])

\* The name "A !7" was given: a capital, a run of two characters outside
\* [a-z0-9], a digit; its slug is "a-7".
C16_Witness ==
  /\ slugCall.pc = "done"
  /\ slugCall.name = <<"A", " ", "!", "7">>
  /\ slugCall.first = <<"a", "-", "7">>

\* A user whose email domain is in no allowed_email_domains value.
MatchesNoPolicy(u) == UserDomain(u) \notin DomainPool

\* C18 as stated, the create part: for a user whose domain matches no policy
\* (no organization is joinable), a create call with the generated name, once
\* settled, has succeeded with a slug that is not empty, holds only
\* [a-z0-9-] and belongs to no other organization, also when the slug of the
\* generated name was taken before.
C18_CreateFallbackSucceeds ==
  \A c \in CreateCalls :
    ( /\ MatchesNoPolicy(TabUser(c[1]))
      /\ FindJoinable(UserDomain(TabUser(c[1])), teams) = {}
      /\ CallAt(c).status \in {"created", "failed"} ) =>
      /\ CallAt(c).status = "created"
      /\ LET slug == teams[CallAt(c).team].slug
         IN  /\ slug # <<>>
             /\ \A i \in DOMAIN slug : IsSlugChar(slug[i]) \/ slug[i] = "-"
             /\ \A o \in TeamIds : o # CallAt(c).team => teams[o].slug # slug

\* C19: no step changes or removes a member row; a row a step adds has the
\* administrative role exactly when its team is created in that same step (the
\* row of the creator), so a row added by a join has the default role; every
\* team has one administrative row.
C19_AdminOnlyForCreator ==
  [][ /\ \A i \in DOMAIN members :
           i \in DOMAIN members' /\ members'[i] = members[i]
      /\ \A i \in DOMAIN members' :
           i \notin DOMAIN members =>
             ( members'[i].admin <=> members'[i].team_id \notin TeamIds )
      /\ \A r \in DOMAIN joinReqs :
           ( joinReqs[r].pc = "insert" /\ joinReqs'[r].result = "success" ) =>
             \E i \in DOMAIN members' :
               /\ i \notin DOMAIN members
               /\ members'[i] = [user_id |-> joinReqs[r].user,
                                 team_id |-> joinReqs[r].team,
                                 admin |-> FALSE]
      /\ \A o \in DOMAIN teams' :
           Cardinality({ i \in DOMAIN members' :
                           members'[i].team_id = o /\ members'[i].admin }) = 1
    ]_vars

\* The creator of a team, admitted by its allowed domains, asked to join it:
\* the join was refused as already a member and the creator's row is still the
\* one administrative row.
C19_Witness ==
  \E r \in DOMAIN joinReqs :
    /\ joinReqs[r].pc = "done"
    /\ joinReqs[r].result = "AlreadyMember"
    /\ DomainAllowed(joinReqs[r].user, joinReqs[r].team)
    /\ joinReqs[r].team \in CreatedBy(joinReqs[r].user)
    /\ Cardinality(MemberRows(joinReqs[r].user, joinReqs[r].team)) = 1

\* C20 as stated, for the list the join page gives a user who has answered
\* the questions and has not chosen an organization yet: the organizations
\* listed are those the allowed domains admit the user's domain to at that
\* moment.
C20_JoinableListIsCurrent ==
  \A t \in Tabs :
    tabs[t].page = "join" =>
      { joinableOrgs[m].slug : m \in DOMAIN joinableOrgs }
        = { teams[o].slug : o \in FindJoinable(UserDomain(TabUser(t)), teams) }

\* C21 as stated, for the operation that marks onboarding completed: when
\* the operation has saved (the user is Completed) and has ended, it has
\* reported success to the user, whether or not the analytics event could
\* be emitted.
C21_AnalyticsFailureIsHarmless ==
  \A t \in Tabs :
    (submitCall[t].saved /\ submitCall[t].outcome # "pending") =>
      /\ GetStage(TabUser(t)) = "Completed"
      /\ submitCall[t].outcome = "navigated"

\* C22: a join that passed the domain check inserts its member row and
\* reports success also when the team's allowed domains stopped admitting the
\* user in between, and no step removes or changes a member row afterwards.
C22_RevokedMidJoinStands ==
  [][ /\ \A r \in DOMAIN joinReqs :
           ( /\ joinReqs[r].pc = "insert"
             /\ joinReqs'[r].pc = "done"
             /\ ~DomainAllowed(joinReqs[r].user, joinReqs[r].team)
             /\ ~IsMember(joinReqs[r].user, joinReqs[r].team) ) =>
             /\ joinReqs'[r].result = "success"
             /\ Cardinality(MemberRows(joinReqs[r].user, joinReqs[r].team)') = 1
      /\ \A r \in DOMAIN joinReqs :
           joinReqs[r].result = "success" =>
             /\ joinReqs'[r].result = "success"
             /\ IsMember(joinReqs[r].user, joinReqs[r].team)'
    ]_vars

\* A join reported success although the allowed domains did not admit the
\* user any more when the row was inserted; the row is there, and the domains
\* have been changed again since.
C22_Witness ==
  \E r \in DOMAIN joinReqs :
    /\ joinReqs[r].result = "success"
    /\ ~joinReqs[r].admittedAtInsert
    /\ IsMember(joinReqs[r].user, joinReqs[r].team)
    /\ DomainAllowed(joinReqs[r].user, joinReqs[r].team)

\* C23: a create that fails because the repository is unreachable is
\* reported to the caller and not issued again (one attempt, no row written),
\* and after a create or a join that ended without success the stage of its
\* user is not Completed.
C23_OutagePropagatesNoRetry ==
  [][ /\ \A c \in CreateCalls :
           ( /\ CallAt(c).status = "pending"
             /\ CallAt(c)' # CallAt(c)
             /\ teams' = teams ) =>
             /\ CallAt(c)'.status = "failed"
             /\ CallAt(c)'.attempts = CallAt(c).attempts
             /\ createCall'[c[1]] = [createCall[c[1]] EXCEPT ![c[2]] = CallAt(c)']
             /\ ~tabs'[c[1]].isJoining
             /\ members' = members
             /\ GetStage(TabUser(c[1]))' # "Completed"
      /\ \A r \in DOMAIN joinReqs :
           ( /\ joinReqs[r].pc # "done"
             /\ joinReqs'[r].pc = "done"
             /\ joinReqs'[r].result # "success" ) =>
             /\ members' = members
             /\ GetStage(joinReqs[r].user)' # "Completed"
    ]_vars

\* The text after the last "@" of an email that has one.
AfterLastAt(email) ==
  LET last == CHOOSE i \in AtPositions(email) :
                \A k \in AtPositions(email) : k <= i
  IN  SubSeq(email, last + 1, Len(email))

\* C24: for every email with at least one "@", extractDomain returns the text
\* after the last "@", lowercased (so it is empty only when that text is
\* empty).
C24_DomainAfterLastAt ==
  ( /\ domainCall.pc = "done"
    /\ AtPositions(domainCall.email) # {} ) =>
    domainCall.domain = toLowerCase(AfterLastAt(domainCall.email))

C26_SetupMutatesOnly ==
  [][ \A t \in Tabs :
        /\ \A i \in DOMAIN dialog'[t].updates :
             ( \/ i \notin DOMAIN dialog[t].updates
               \/ dialog'[t].updates[i] # dialog[t].updates[i] ) =>
               LET orgId == dialog'[t].updates[i].orgId
               IN  /\ Len(teams') = Len(teams)
                   /\ members' = members
                   /\ teams'[orgId].id = orgId
                   /\ \A o \in TeamIds : o # orgId => teams'[o] = teams[o]
        /\ ( /\ tabs[t].page = "org" /\ tabs[t].setup
             /\ tabs'[t].page = "org" /\ ~tabs'[t].setup ) =>
             /\ \E i \in DOMAIN dialog[t].updates :
                  /\ dialog[t].updates[i].status = "committed"
                  /\ dialog'[t].updates[i].status = "resolved"
                  /\ dialog[t].updates[i].instance = dialog[t].instance
             /\ tabs'[t].errors = tabs[t].errors
        /\ \A i \in DOMAIN dialog[t].updates :
             ( /\ dialog[t].updates[i].status = "pending"
               /\ dialog'[t].updates[i].status = "failed"
               /\ dialog[t].updates[i].instance = dialog[t].instance ) =>
               /\ tabs'[t].setup
               /\ tabs'[t].errors
               /\ teams' = teams
    ]_vars

\* C27: while a createTeam call of a tab is awaited, isJoining is true and
\* that call is the only one of the tab that is awaited.
C27_CreateStaysDisabled ==
  \A t \in Tabs :
    LET pending == { k \in DOMAIN createCall[t] :
                       createCall[t][k].status \in {"pending", "committed"} }
    IN  pending # {} =>
          /\ tabs[t].isJoining
          /\ Cardinality(pending) = 1

\* C28: when a save closes the setup dialog of a tab, the stored slug of the
\* team updated is the slug the dialog displayed for the saved name.
C28_ShownSlugIsStored ==
  [][ \A t \in Tabs :
        \A i \in DOMAIN dialog[t].updates :
        ( /\ dialog[t].updates[i].status = "committed"
          /\ dialog'[t].updates[i].status = "resolved" ) =>
          teams'[dialog[t].updates[i].orgId].slug =
            nameToSlugDialog(dialog[t].updates[i].name)
    ]_vars

\* C29: in the dialog of a tab, an uploaded logo is the logo shown, whatever
\* the company URL becomes; the step that ends an upload attempt by a
\* failure or a refusal leaves the logo URL and the uploaded path unchanged;
\* and isUploading is true exactly while an attempt is under way.
C29_UploadedLogoKept ==
  [][ \A t \in Tabs :
        /\ dialog'[t].uploadedLogoPath # <<>> =>
             dialog'[t].logoUrl = UploadUrl(dialog'[t].uploadedLogoPath)
        /\ ( /\ dialog[t].uploadedLogoPath # <<>>
             /\ dialog'[t].companyUrl # dialog[t].companyUrl
             /\ createCall' = createCall ) =>
             dialog'[t].logoUrl = dialog[t].logoUrl
        /\ ( /\ dialog'[t].attempt \in FileRefusals \cup {"unread", "failed"}
             /\ dialog'[t].attempt # dialog[t].attempt ) =>
             /\ dialog'[t].logoUrl = dialog[t].logoUrl
             /\ dialog'[t].uploadedLogoPath = dialog[t].uploadedLogoPath
        /\ dialog'[t].isUploading <=>
             dialog'[t].attempt \in {"reading", "writing"}
    ]_vars

\* A logo a.b.SVG was uploaded, the company URL is now a domain with a
\* favicon, the write of a second file (logo) failed, and the logo is still
\* the uploaded file.
C29_Witness ==
  /\ dialog["t1"].mounted
  /\ dialog["t1"].attempt = "failed"
  /\ dialog["t1"].uploads = 2
  /\ dialog["t1"].uploadedLogoPath = UploadPath(1, <<"S","V","G">>)
  /\ dialog["t1"].logoUrl = UploadUrl(UploadPath(1, <<"S","V","G">>))
  /\ dialog["t1"].path = UploadPath(2, <<"l","o","g","o">>)
  /\ dialog["t1"].companyUrl = <<"d","e","c","o",".","c","x">>
  /\ dialog["t1"].name = <<"D","e","c","o">>
  /\ ~dialog["t1"].isUploading

\* C30: the steps run are a prefix of the fixed order; when the resources
\* check fails nothing else runs and the script exits with an error; and when
\* Node.js 24 was freshly installed, setup_nodejs returns 0 and the script
\* does not end at that step.
C30_ScriptOrderAndNode ==
  /\ script.ran = SubSeq(MainSteps, 1, Len(script.ran))
  /\ (script.pc # "idle" /\ script.ram < MinRamMb /\ script.pc = "exited") =>
       /\ script.ran = <<"check_resources">>
       /\ script.exit = "1"
  /\ script.install = "installed" =>
       /\ script.nodejs = "0"
       /\ script.ran[Len(script.ran)] = "setup_nodejs" => script.pc # "exited"

====
